---- MODULE Spec2Model ----
(***************************************************************************)
(* Wavelet decomposition and wavelet variance of src/src/build_file.cpp:   *)
(* select_filter, dwt_arma, modwt_arma, brick_wall, wave_variance,         *)
(* ci_eta3 and wavelet_variance_arma.                                      *)
(*                                                                         *)
(* Numbers.  The program computes in double precision.  Every value it     *)
(* derives from an integer-valued signal with the Haar filter lies in the  *)
(* field Q(sqrt 2); the model computes there exactly.  A number is a       *)
(* triple <<a, b, d>> standing for (a + b*sqrt(2)) / d with d > 0 and      *)
(* gcd(a, b, d) = 1, so equal numbers are equal triples.  <<0, 0, 0>> is   *)
(* NaN (the result of 0.0/0.0).  Rounding of doubles is not modelled.      *)
(***************************************************************************)
EXTENDS Integers, Sequences, FiniteSets, TLC

(***************************************************************************)
(* Bounds of the model.                                                    *)
(***************************************************************************)
\* longest signal handed to dwt_arma / modwt_arma
MaxLen == 5
\* largest in-range level count handed to dwt_arma / modwt_arma
MaxJ == 4
\* longest filter handed to brick_wall
MaxM == 4
\* longest signal handed to wavelet_variance_arma
MaxAnLen == 16

\* sample values of a signal
Values == {-1, 2}

\* width of unsigned int: tau = pow(2,J) is converted to it
UIntBits == 32
\* The value a saturating double->unsigned conversion yields stands for
\* UINT_MAX; it is only ever compared with signal lengths, all far smaller.
SaturatedTau == 2147483647

(***************************************************************************)
(* Exact arithmetic in Q(sqrt 2).                                          *)
(***************************************************************************)
Abs(n) == IF n < 0 THEN -n ELSE n

RECURSIVE GCD(_, _)
GCD(a, b) == IF b = 0 THEN a ELSE GCD(b, a % b)

NaN == <<0, 0, 0>>

IsNaN(p) == p[3] = 0

Norm(a, b, d) ==
    LET c == GCD(GCD(Abs(a), Abs(b)), d)
    IN  <<a \div c, b \div c, d \div c>>

RInt(n) == <<n, 0, 1>>

\* over the least common denominator
RAdd(p, q) ==
    IF IsNaN(p) \/ IsNaN(q) THEN NaN
    ELSE LET c == GCD(p[3], q[3])
             pm == q[3] \div c
             qm == p[3] \div c
         IN  Norm(p[1] * pm + q[1] * qm, p[2] * pm + q[2] * qm, p[3] * pm)

RMul(p, q) ==
    IF IsNaN(p) \/ IsNaN(q) THEN NaN
    ELSE Norm(p[1] * q[1] + 2 * p[2] * q[2], p[1] * q[2] + p[2] * q[1], p[3] * q[3])

RNeg(p) == <<-p[1], -p[2], p[3]>>

\* p / n for a count n >= 0; 0/0 is NaN (a nonzero p over 0 does not occur:
\* the only division by a count divides a sum over that many elements)
RDivInt(p, n) ==
    IF IsNaN(p) \/ n = 0 THEN NaN ELSE Norm(p[1], p[2], p[3] * n)

Half(p) == RDivInt(p, 2)

\* multiplication by 1/sqrt(2) = sqrt(2)/2
RDivSqrt2(p) == RMul(p, <<0, 1, 2>>)

\* sign test of (a + b*sqrt 2)/d
RNonNeg(p) ==
    /\ ~IsNaN(p)
    /\ \/ p[1] >= 0 /\ p[2] >= 0
       \/ p[1] >= 0 /\ p[2] < 0 /\ p[1] * p[1] >= 2 * p[2] * p[2]
       \/ p[1] < 0 /\ p[2] >= 0 /\ 2 * p[2] * p[2] >= p[1] * p[1]

RECURSIVE Pow2(_)
Pow2(e) == IF e = 0 THEN 1 ELSE 2 * Pow2(e - 1)

\* unsigned(n / pow(2, e)) for a length n: zero once 2^e exceeds every length
\* (2^e itself is not formed beyond the range of the model's integers)
DivPow2(n, e) == IF e > 30 THEN 0 ELSE n \div Pow2(e)

(***************************************************************************)
(* Vectors (arma::vec) are sequences of numbers, 1-based in the model and  *)
(* 0-based in the program: element i of the program is v[i + 1].           *)
(***************************************************************************)
reverse_vec(v) == [i \in 1..Len(v) |-> v[Len(v) + 1 - i]]

VecOfInts(s) == [i \in 1..Len(s) |-> RInt(s[i])]

RECURSIVE SumSeq(_)
SumSeq(v) == IF v = <<>> THEN RInt(0) ELSE RAdd(v[1], SumSeq(Tail(v)))

dot(v, w) == SumSeq([i \in 1..Len(v) |-> RMul(v[i], w[i])])

ScaleVec(v) == [i \in 1..Len(v) |-> RDivSqrt2(v[i])]

(***************************************************************************)
(* Filter catalogue.                                                       *)
(***************************************************************************)
\* variant (a deliberately wrong translation): the parity test is inverted
qmf_Mut(gg, inv) ==
    LET rev == reverse_vec(gg)
    IN  [i \in 1..Len(gg) |->
            IF ((i - 1) + (IF inv THEN 0 ELSE 1)) % 2 = 0
            THEN RNeg(rev[i]) ELSE rev[i]]

\* rev_g(i) is negated when (i + !inverse) % 2 != 0, i the 0-based index
qmf(gg, inverse) ==
    LET rev_g == reverse_vec(gg)
    IN  [i \in 1..Len(gg) |->
            IF ((i - 1) + (IF inverse THEN 0 ELSE 1)) % 2 # 0
            THEN RNeg(rev_g[i]) ELSE rev_g[i]]

\* out(0) = L, out(1) = h, out(2) = g; g = (0.7071067811865475, 0.7071067811865475)
haar_filter ==
    LET gg == <<RDivSqrt2(RInt(1)), RDivSqrt2(RInt(1))>>
    IN  [L |-> 2, h |-> qmf(gg, TRUE), g |-> gg]

\* variant (a deliberately wrong translation): every name is accepted
FilterSupported_Mut(name) == TRUE

\* filter_name == "haar"
FilterSupported(name) == name = "haar"

select_filter(name) == haar_filter

(***************************************************************************)
(* Inputs.                                                                 *)
(***************************************************************************)
Signals == UNION {[1..n -> Values] : n \in 0..MaxLen}

FilterNames == {"haar", "d4"}

Boundaries == {"periodic", "reflection", "zero"}

\* level counts: small ones, and one for which 2^J is beyond unsigned int
\* (the counts between, 2^J beyond the model's integers, are left out)
JValues == (0..MaxJ) \cup {UIntBits}

Transforms == {"dwt_arma", "modwt_arma"}

Methods == {"modwt", "dwt"}

CITypes == {"eta3", "eta2"}

CovModes == {"no", "diag", "full"}

VARIABLES
    op,           \* the exported function the session called first
    signal,       \* the caller's vector
    filter_name,  \* argument filter_name / strWavelet
    nlevels,      \* argument nlevels
    boundary,     \* argument boundary
    compute_v,    \* argument compute_v of wavelet_variance_arma
    pc,           \* position in the running function
    err,          \* the error raised by stop() or by a bounds check, or "none"
    x,            \* the transform's own copy of the vector (the by-value parameter)
    N, J,         \* locals N and J of the transform
    filt,         \* locals L, h, g (ht, gt in modwt_arma)
    j,            \* loop counter of the pyramid loop
    y,            \* the field of level outputs (signal_modwt)
    wave_filter,  \* argument wave_filter of brick_wall
    method,       \* argument method of brick_wall
    bw,           \* the field brick_wall returns (signal_modwt_bw)
    wx,           \* argument x of wave_variance
    type,         \* argument type of wave_variance
    vmod,         \* the matrix wave_variance returns, one record per row
    nb_level,     \* local nb_level of wavelet_variance_arma
    result,       \* the list wavelet_variance_arma returns
    inverse,      \* argument inverse of qmf
    rev_g         \* local rev_g of qmf, the vector it returns

args == <<op, signal, filter_name, compute_v>>

call == <<nlevels, boundary>>

tvars == <<x, N, J, filt, j, y>>

bvars == <<wave_filter, method, bw>>

wvars == <<wx, type, vmod>>

avars == <<nb_level, result>>

qvars == <<inverse, rev_g>>

vars == <<args, call, pc, err, tvars, bvars, wvars, avars, qvars>>

NoFilter == [L |-> 0, h |-> <<>>, g |-> <<>>]

IsDwt == op = "dwt_arma"

InitLocals ==
    /\ err = "none"
    /\ x = signal
    /\ wave_filter = NoFilter
    /\ method = "modwt"
    /\ bw = <<>>
    /\ wx = <<>>
    /\ type = "eta3"
    /\ vmod = <<>>
    /\ nb_level = 0
    /\ result = <<>>
    /\ N = 0
    /\ J = 0
    /\ filt = NoFilter
    /\ j = 0
    /\ y = <<>>
    /\ rev_g = <<>>

\* a call of dwt_arma or modwt_arma
InitTransform ==
    /\ op \in Transforms
    /\ signal \in {VecOfInts(s) : s \in Signals}
    /\ filter_name \in FilterNames
    /\ nlevels \in JValues
    /\ boundary \in Boundaries
    /\ compute_v = "no"
    /\ inverse = TRUE
    /\ pc = "boundary"
    /\ InitLocals

Fail(e) ==
    /\ err' = e
    /\ pc' = "error"

(***************************************************************************)
(* dwt_arma / modwt_arma, boundary handling.  For an empty vector          *)
(* x.rows(temp_N, 2*temp_N-1) is x.rows(0, UINT_MAX), which the bounds     *)
(* check of the vector rejects.                                            *)
(***************************************************************************)
Reflected(v) == v \o reverse_vec(v)

Boundary ==
    /\ pc = "boundary"
    /\ IF boundary = "periodic"
       THEN /\ pc' = "levels"
            /\ UNCHANGED <<err, x>>
       ELSE IF boundary = "reflection"
       THEN IF Len(x) = 0
            THEN Fail("ReflectOutOfBounds") /\ UNCHANGED x
            ELSE /\ x' = Reflected(x)
                 /\ pc' = "levels"
                 /\ UNCHANGED err
       ELSE Fail("UnsupportedBoundary") /\ UNCHANGED x
    /\ UNCHANGED <<args, qvars, call, N, J, filt, j, y, bvars, wvars, avars>>

(***************************************************************************)
(* unsigned int tau = pow(2,J).  For J >= 32 the double 2^J is out of the  *)
(* range of unsigned int and the conversion is undefined: builds yield 0   *)
(* (truncating conversion) or UINT_MAX (saturating conversion).            *)
(***************************************************************************)
TauOutcomes(JJ) ==
    IF JJ < UIntBits THEN {Pow2(JJ)} ELSE {0, SaturatedTau}

\* double(N)/double(tau) != floor(double(N)/double(tau)):
\* N/0 is +inf (equal to its floor) for N > 0 and NaN (unequal to itself) for N = 0
NotDivisible(NN, tau) ==
    IF tau = 0 THEN NN = 0 ELSE NN % tau # 0

LevelsRejected(NN, tau) ==
    IF IsDwt THEN NotDivisible(NN, tau) \/ tau > NN ELSE tau > NN

CheckLevels ==
    /\ pc = "levels"
    /\ N' = Len(x)
    /\ J' = nlevels
    /\ \E tau \in TauOutcomes(nlevels) :
          IF LevelsRejected(Len(x), tau)
          THEN Fail("InvalidDecomposition")
          ELSE pc' = "filter" /\ UNCHANGED err
    /\ UNCHANGED <<args, qvars, call, x, filt, j, y, bvars, wvars, avars>>

\* variant (a deliberately wrong translation): the filters are left unscaled in modwt_arma
TransformFilter_Mut(info) == info

\* modwt_arma divides ht and gt by sqrt(2); dwt_arma uses h and g as they are
TransformFilter(info) ==
    IF IsDwt THEN info
    ELSE [L |-> info.L, h |-> ScaleVec(info.h), g |-> ScaleVec(info.g)]

SelectFilter ==
    /\ pc = "filter"
    /\ IF FilterSupported(filter_name)
       THEN /\ filt' = TransformFilter(select_filter(filter_name))
            /\ y' = [i \in 1..J |-> <<>>]
            /\ j' = 1
            /\ pc' = "loop"
            /\ UNCHANGED err
       ELSE Fail("UnsupportedFilter") /\ UNCHANGED <<filt, y, j>>
    /\ UNCHANGED <<args, qvars, call, x, N, J, bvars, wvars, avars>>

(***************************************************************************)
(* One level of the pyramid.  An element access x(u) outside the vector    *)
(* is rejected by the bounds check of the vector.                          *)
(***************************************************************************)
\* variant (a deliberately wrong translation): the first tap reads position 2t
RECURSIVE DwtIndex_Mut(_, _, _)
DwtIndex_Mut(t, n, M) ==
    IF n = 0 THEN 2 * t
    ELSE LET u == DwtIndex_Mut(t, n - 1, M) - 1
         IN  IF u < 0 THEN M - 1 ELSE u

\* dwt_arma: u = 2t+1, then  u -= 1; if (u < 0) u = M - 1;  once per tap
RECURSIVE DwtIndex(_, _, _)
DwtIndex(t, n, M) ==
    IF n = 0 THEN 2 * t + 1
    ELSE LET u == DwtIndex(t, n - 1, M) - 1
         IN  IF u < 0 THEN M - 1 ELSE u

\* modwt_arma: k = t, then  k -= pow(2, j-1); if (k < 0) k += N;  once per tap
RECURSIVE ModwtIndex(_, _, _, _)
ModwtIndex(t, n, jj, NN) ==
    IF n = 0 THEN t
    ELSE LET k == ModwtIndex(t, n - 1, jj, NN) - Pow2(jj - 1)
         IN  IF k < 0 THEN k + NN ELSE k

\* variant (a deliberately wrong translation): the level length is taken one level too deep
LevelM_Mut(jj) == DivPow2(N, jj)

\* M = N/pow(2,(j-1)) and M_over_2 = double(M)/2, both truncated to unsigned
LevelM(jj) == DivPow2(N, jj - 1)

OutLen(jj) == IF IsDwt THEN LevelM(jj) \div 2 ELSE N

TapIndex(t, n, jj) ==
    IF IsDwt THEN DwtIndex(t, n, LevelM(jj)) ELSE ModwtIndex(t, n, jj, N)

InBounds(v, i) == 0 <= i /\ i < Len(v)

LevelInBounds(jj) ==
    \A t \in 0..(OutLen(jj) - 1) : \A n \in 0..(filt.L - 1) :
        InBounds(x, TapIndex(t, n, jj))

\* Wjt = h(0)*x(u) + h(1)*x(u') + ...  (Vjt with g)
Tap(f, t, jj) ==
    SumSeq([n \in 1..filt.L |-> RMul(f[n], x[TapIndex(t, n - 1, jj) + 1])])

Wj(jj) == [t \in 1..OutLen(jj) |-> Tap(filt.h, t - 1, jj)]

Vj(jj) == [t \in 1..OutLen(jj) |-> Tap(filt.g, t - 1, jj)]

Level ==
    /\ pc = "loop"
    /\ j <= J
    /\ IF LevelInBounds(j)
       THEN /\ y' = [y EXCEPT ![j] = Wj(j)]
            /\ x' = Vj(j)
            /\ j' = j + 1
            /\ UNCHANGED <<pc, err>>
       ELSE Fail("IndexOutOfBounds") /\ UNCHANGED <<x, j, y>>
    /\ UNCHANGED <<args, qvars, call, N, J, filt, bvars, wvars, avars>>

Return ==
    /\ pc = "loop"
    /\ j > J
    /\ pc' = "done"
    /\ UNCHANGED <<args, qvars, call, err, tvars, bvars, wvars, avars>>

(***************************************************************************)
(* brick_wall.  temp.rows(n, temp_size-1) is rejected by the bounds check  *)
(* of the vector when n > temp_size-1; temp_size-1 is UINT_MAX for an      *)
(* empty level, which the check rejects as well.                           *)
(***************************************************************************)
IsAnalyze == op = "wavelet_variance_arma"

\* ceil(a/b) for b > 0
CeilDiv(a, b) == -((-a) \div b)

\* variant (a deliberately wrong translation): binary_power * (m - 1.0)
TrimCount_Mut(m, jj, meth) ==
    IF meth = "dwt"
    THEN CeilDiv((m - 2) * (Pow2(jj + 1) - 1), Pow2(jj + 1))
    ELSE Pow2(jj + 1) * (m - 1)

\* n before the clamp, jj the 0-based level: (binary_power - 1.0) * (m - 1.0), or
\* ceil((m - 2) * (1.0 - 1.0/binary_power)) for method "dwt"
TrimCount(m, jj, meth) ==
    IF meth = "dwt"
    THEN CeilDiv((m - 2) * (Pow2(jj + 1) - 1), Pow2(jj + 1))
    ELSE (Pow2(jj + 1) - 1) * (m - 1)

Min(a, b) == IF a < b THEN a ELSE b

\* n = std::min(n, temp_size)
ClampedCount(temp, m, jj, meth) == Min(TrimCount(m, jj, meth), Len(temp))

RowsInBounds(temp, first, last) == first <= last /\ last < Len(temp)

\* temp.rows(n, temp_size-1), 0-based and inclusive
Rows(temp, first, last) == SubSeq(temp, first + 1, last + 1)

\* levels jj, jj+1, ... of fld in order; the first rejected level ends the call
RECURSIVE TrimFrom(_, _, _, _)
TrimFrom(fld, jj, m, meth) ==
    IF jj >= Len(fld) THEN [ok |-> TRUE, val |-> <<>>]
    ELSE IF ~RowsInBounds(fld[jj + 1], ClampedCount(fld[jj + 1], m, jj, meth),
                          Len(fld[jj + 1]) - 1)
    THEN [ok |-> FALSE, val |-> <<>>]
    ELSE [ok |-> TrimFrom(fld, jj + 1, m, meth).ok,
          val |-> <<Rows(fld[jj + 1], ClampedCount(fld[jj + 1], m, jj, meth),
                         Len(fld[jj + 1]) - 1)>>
                  \o TrimFrom(fld, jj + 1, m, meth).val]

\* a filter field whose first entry is m
FilterOfLength(m) ==
    IF m = 2 THEN haar_filter
    ELSE [L |-> m, h |-> [i \in 1..m |-> RInt(0)], g |-> [i \in 1..m |-> RInt(0)]]

BrickWallWith(wf, meth) ==
    /\ wave_filter' = wf
    /\ method' = meth
    /\ IF TrimFrom(y, 0, wf.L, meth).ok
       THEN /\ bw' = TrimFrom(y, 0, wf.L, meth).val
            /\ pc' = "trimmed"
            /\ UNCHANGED err
       ELSE Fail("TrimOutOfBounds") /\ UNCHANGED bw

\* brick_wall(y, wave_filter, method); wavelet_variance_arma calls
\* brick_wall(signal_modwt, select_filter(strWavelet)) with the default method
BrickWall ==
    /\ pc = "done"
    /\ IF IsAnalyze
       THEN BrickWallWith(select_filter(filter_name), "modwt")
       ELSE \E m \in 1..MaxM : \E meth \in Methods :
                BrickWallWith(FilterOfLength(m), meth)
    /\ UNCHANGED <<args, qvars, call, tvars, wvars, avars>>

(***************************************************************************)
(* wave_variance and ci_eta3.  qchisq is not part of the program: a bound  *)
(* is kept as the numerator eta3*y(i) and the quantile it is divided by.   *)
(***************************************************************************)
\* variant (a deliberately wrong translation): the scale of level i is taken as 2^i
Eta3_Mut(dims, i) ==
    IF dims < Pow2(i) THEN RInt(1) ELSE RDivInt(RInt(dims), Pow2(i))

\* std::max(dims(i)/pow(2,i+1), 1.0), i 0-based (the quotient is below 1, and
\* 2^(i+1) is not formed, when i+1 exceeds the bits of every length)
Eta3(dims, i) ==
    IF i + 1 > 30 \/ dims < Pow2(i + 1) THEN RInt(1)
    ELSE RDivInt(RInt(dims), Pow2(i + 1))

\* variant (a deliberately wrong translation): the two quantiles are exchanged
ci_eta3_Mut(yy, dims) ==
    [i \in 1..Len(dims) |->
        [variance |-> yy[i],
         low  |-> [num |-> RMul(Eta3(dims[i], i - 1), yy[i]),
                   den |-> <<"qchisq", "p", Eta3(dims[i], i - 1)>>],
         high |-> [num |-> RMul(Eta3(dims[i], i - 1), yy[i]),
                   den |-> <<"qchisq", "1-p", Eta3(dims[i], i - 1)>>]]]

ci_eta3(yy, dims) ==
    [i \in 1..Len(dims) |->
        [variance |-> yy[i],
         low  |-> [num |-> RMul(Eta3(dims[i], i - 1), yy[i]),
                   den |-> <<"qchisq", "1-p", Eta3(dims[i], i - 1)>>],
         high |-> [num |-> RMul(Eta3(dims[i], i - 1), yy[i]),
                   den |-> <<"qchisq", "p", Eta3(dims[i], i - 1)>>]]]

\* R::qchisq(prob, df, 1, 0), the quantile function of the chi-squared
\* distribution of the Rmath library, at p = 0.025: rows <<a, d, l, u, ll, uu>>
\* say that for df = a/d the 0.025 quantile lies in [l/1000, u/1000] and the
\* 0.975 quantile in [ll/1000, uu/1000]
QchisqTable == {
    <<1, 1, 0, 1, 5023, 5024>>, <<17, 16, 1, 2, 5192, 5193>>,
    <<9, 8, 2, 3, 5357, 5358>>, <<5, 4, 4, 5, 5675, 5676>>,
    <<11, 8, 8, 9, 5980, 5981>>, <<3, 2, 13, 14, 6275, 6276>>,
    <<13, 8, 19, 20, 6561, 6562>>, <<7, 4, 28, 29, 6840, 6841>>,
    <<15, 8, 38, 39, 7112, 7113>>, <<2, 1, 50, 51, 7377, 7378>>,
    <<17, 8, 64, 65, 7638, 7639>>, <<9, 4, 80, 81, 7893, 7894>>,
    <<5, 2, 118, 119, 8392, 8393>>, <<11, 4, 163, 164, 8876, 8877>>,
    <<3, 1, 215, 216, 9348, 9349>>, <<13, 4, 274, 275, 9809, 9810>>,
    <<7, 2, 338, 339, 10262, 10263>>, <<15, 4, 409, 410, 10706, 10707>>,
    <<4, 1, 484, 485, 11143, 11144>>, <<17, 4, 564, 565, 11573, 11574>>,
    <<9, 2, 649, 650, 11998, 11999>>, <<5, 1, 831, 832, 12832, 12833>>,
    <<11, 2, 1027, 1028, 13648, 13649>>, <<6, 1, 1237, 1238, 14449, 14450>>,
    <<13, 2, 1458, 1459, 15236, 15237>>, <<7, 1, 1689, 1690, 16012, 16013>>,
    <<15, 2, 1930, 1931, 16778, 16779>>, <<8, 1, 2179, 2180, 17534, 17535>>,
    <<17, 2, 2436, 2437, 18282, 18283>>, <<9, 1, 2700, 2701, 19022, 19023>>}

\* the enclosure of qchisq(prob, df), prob being p or 1-p
qchisq(prob, df) ==
    LET row == CHOOSE r \in QchisqTable : r[1] = df[1] /\ r[2] = df[3]
    IN  IF prob = "p"
        THEN [lo |-> Norm(row[3], 0, 1000), hi |-> Norm(row[4], 0, 1000)]
        ELSE [lo |-> Norm(row[5], 0, 1000), hi |-> Norm(row[6], 0, 1000)]

\* dims(i) = temp.n_elem; y(i) = dot(temp,temp)/dims(i)
LevelDims(fld) == [i \in 1..Len(fld) |-> Len(fld[i])]

\* variant (a deliberately wrong translation): the sum of squares is divided by n + 1
LevelVariance_Mut(temp) == RDivInt(dot(temp, temp), Len(temp) + 1)

LevelVariance(temp) == RDivInt(dot(temp, temp), Len(temp))

LevelVariances(fld) == [i \in 1..Len(fld) |-> LevelVariance(fld[i])]

WaveVarianceWith(fld, ty) ==
    /\ wx' = fld
    /\ type' = ty
    /\ IF ty = "eta3"
       THEN /\ vmod' = ci_eta3(LevelVariances(fld), LevelDims(fld))
            /\ pc' = "estimated"
            /\ UNCHANGED err
       ELSE Fail("UnsupportedCIType") /\ UNCHANGED vmod

\* wave_variance(x, type, p) on a decomposition or on a brick-walled one;
\* wavelet_variance_arma calls wave_variance(signal_modwt_bw, "eta3", p)
WaveVariance ==
    /\ IF IsAnalyze
       THEN pc = "trimmed" /\ WaveVarianceWith(bw, "eta3")
       ELSE /\ pc \in {"done", "trimmed"}
            /\ \E ty \in CITypes :
                  WaveVarianceWith(IF pc = "done" THEN y ELSE bw, ty)
    /\ UNCHANGED <<args, qvars, call, tvars, bvars, avars>>

(***************************************************************************)
(* wavelet_variance_arma.                                                  *)
(***************************************************************************)
PatternSignals ==
    {[i \in 1..n |-> IF i % k = 0 THEN 2 ELSE -1] :
        n \in (MaxLen + 1)..MaxAnLen, k \in 1..3}

InitAnalyze ==
    /\ op = "wavelet_variance_arma"
    /\ signal \in {VecOfInts(s) : s \in Signals \cup PatternSignals}
    /\ filter_name \in FilterNames
    /\ nlevels = 0
    /\ boundary = "periodic"
    /\ compute_v \in CovModes
    /\ inverse = TRUE
    /\ pc = "an_start"
    /\ InitLocals

\* variant (a deliberately wrong translation): the logarithm is rounded up
RECURSIVE FloorLog2_Mut(_)
FloorLog2_Mut(n) == IF n <= 1 THEN 0 ELSE 1 + FloorLog2_Mut((n + 1) \div 2)

\* floor(log2(n)) converted to unsigned; for n = 0 the double is -inf, which both
\* the truncating and the saturating conversion turn into 0
RECURSIVE FloorLog2(_)
FloorLog2(n) == IF n <= 1 THEN 0 ELSE 1 + FloorLog2(n \div 2)

\* nb_level, then the call modwt_arma(signal, strWavelet, nb_level)
AnalyzeStart ==
    /\ pc = "an_start"
    /\ nb_level' = FloorLog2(Len(signal))
    /\ nlevels' = FloorLog2(Len(signal))
    /\ pc' = "boundary"
    /\ UNCHANGED <<args, qvars, boundary, err, tvars, bvars, wvars, result>>

\* arma::real(ifft(|fft(x zero-padded to 2n)|^2)) / n, rows 0..n-1: the circular
\* autocorrelation of the padded vector is the sum of the lagged products
dft_acf(w) ==
    [k \in 1..Len(w) |->
        RDivInt(SumSeq([t \in 1..(Len(w) - k + 1) |-> RMul(w[t], w[t + k - 1])]),
                Len(w))]

\* variant (a deliberately wrong translation): the squared lag-0 term is not halved
AjOf_Mut(temp) == RAdd(dot(temp, temp), RNeg(RMul(temp[1], temp[1])))

\* Aj(i) = dot(temp,temp) - temp(0)*temp(0)/2, temp the dft_acf of level i
AjOf(temp) == RAdd(dot(temp, temp), RNeg(Half(RMul(temp[1], temp[1]))))

Identity(n) == [i \in 1..n |-> [k \in 1..n |-> IF i = k THEN RInt(1) ELSE RInt(0)]]

\* diagmat(2 * Aj / signal_modwt(0).n_elem)
DiagV(fld) ==
    [i \in 1..Len(fld) |-> [k \in 1..Len(fld) |->
        IF i = k
        THEN RDivInt(RMul(RInt(2), AjOf(dft_acf(fld[i]))), Len(fld[1]))
        ELSE RInt(0)]]

CovMatrix ==
    IF compute_v = "diag" THEN DiagV(y) ELSE Identity(nb_level)

\* a Gaussian bound is kept as centre + sign*z*sqrt(var), qnorm and sqrt not being
\* part of the program; datum::nan is the bound whose parts are NaN
GaussNaN == [centre |-> NaN, sign |-> 0, z |-> <<"qnorm", "1-p">>, var |-> NaN]

IsGaussNaN(b) == IsNaN(b.centre) \/ IsNaN(b.var)

\* variant (a deliberately wrong translation): the bounds are computed in every mode
GaussBound_Mut(sign) ==
    [i \in 1..nb_level |->
        [centre |-> vmod[i].variance, sign |-> sign,
         z |-> <<"qnorm", "1-p">>, var |-> CovMatrix[i][i]]]

\* vmod.col(0) -/+ qnorm(1-p)*sqrt(diagvec(V)), or NaN
GaussBound(sign) ==
    [i \in 1..nb_level |->
        IF compute_v \in {"full", "diag"}
        THEN [centre |-> vmod[i].variance, sign |-> sign,
              z |-> <<"qnorm", "1-p">>, var |-> CovMatrix[i][i]]
        ELSE GaussNaN]

\* variant (a deliberately wrong translation): the scales start at 2^0
Scales_Mut(n) == [i \in 1..n |-> RInt(Pow2(i - 1))]

\* scales(i) = pow(2,i+1), i 0-based
Scales(n) == [i \in 1..n |-> RInt(Pow2(i))]

AnalyzeReturn ==
    /\ IsAnalyze
    /\ pc = "estimated"
    /\ IF compute_v = "diag" /\ Len(y) = 0
       THEN Fail("FieldOutOfBounds") /\ UNCHANGED result
       ELSE /\ result' =
                [variance |-> [i \in 1..Len(vmod) |-> vmod[i].variance],
                 low      |-> [i \in 1..Len(vmod) |-> vmod[i].low],
                 high     |-> [i \in 1..Len(vmod) |-> vmod[i].high],
                 scales   |-> Scales(nb_level),
                 V        |-> CovMatrix,
                 up_gauss |-> GaussBound(1),
                 dw_gauss |-> GaussBound(-1)]
            /\ pc' = "returned"
            /\ UNCHANGED err
    /\ UNCHANGED <<args, qvars, call, tvars, bvars, wvars, nb_level>>

(***************************************************************************)
(* qmf called on its own.                                                  *)
(***************************************************************************)
InitQmf ==
    /\ op = "qmf"
    /\ signal \in {VecOfInts(s) : s \in Signals}
    /\ inverse \in BOOLEAN
    /\ filter_name = "haar"
    /\ nlevels = 0
    /\ boundary = "periodic"
    /\ compute_v = "no"
    /\ pc = "qmf"
    /\ InitLocals

\* qmf(g, inverse), g the caller's vector
Qmf ==
    /\ pc = "qmf"
    /\ rev_g' = qmf(signal, inverse)
    /\ pc' = "qmf_done"
    /\ UNCHANGED <<args, call, err, tvars, bvars, wvars, avars, inverse>>

Init == InitTransform \/ InitAnalyze \/ InitQmf

Next ==
    \/ Boundary
    \/ CheckLevels
    \/ SelectFilter
    \/ Level
    \/ Return
    \/ BrickWall
    \/ WaveVariance
    \/ AnalyzeStart
    \/ AnalyzeReturn
    \/ Qmf

Spec == Init /\ [][Next]_vars

(***************************************************************************)
(* Properties of dwt_arma and modwt_arma.                                  *)
(***************************************************************************)
\* the transform has returned its field / has finished either way
Returned == pc = "done"

TransformErrors ==
    {"UnsupportedBoundary", "ReflectOutOfBounds", "InvalidDecomposition",
     "UnsupportedFilter", "IndexOutOfBounds"}

TransformOver == pc = "done" \/ (pc = "error" /\ err \in TransformErrors)

TransformErr == IF pc = "done" THEN "none" ELSE err

\* the signal after boundary handling, and its length
Handled == IF boundary = "reflection" THEN Reflected(signal) ELSE signal

HandledLen == IF boundary = "reflection" THEN 2 * Len(signal) ELSE Len(signal)

BoundaryPassed ==
    /\ pc # "boundary"
    /\ boundary \in {"periodic", "reflection"}

\* 2^JJ > n, for lengths n of the model (2^JJ is not formed when it is huge)
PowExceeds(JJ, n) == JJ > 30 \/ Pow2(JJ) > n

PowDivides(JJ, n) == JJ <= 30 /\ n % Pow2(JJ) = 0

LevelsInvalid ==
    IF IsDwt
    THEN ~PowDivides(nlevels, HandledLen) \/ PowExceeds(nlevels, HandledLen)
    ELSE PowExceeds(nlevels, HandledLen)

\* C1: once the boundary is handled, a finished dwt_arma call has failed with the
\* invalid-decomposition error whenever N is not divisible by 2^J or 2^J > N, a
\* finished modwt_arma call exactly when 2^J > N, and in every other case the
\* call (with a supported filter) has succeeded; N = 10, J = 4 fails for both.
C1_LevelCountPreconditions ==
    (TransformOver /\ BoundaryPassed /\ err # "ReflectOutOfBounds") =>
        /\ LevelsInvalid => TransformErr = "InvalidDecomposition"
        /\ ~LevelsInvalid => TransformErr # "InvalidDecomposition"
        /\ (~LevelsInvalid /\ FilterSupported(filter_name)) => TransformErr = "none"
        /\ (HandledLen = 10 /\ nlevels = 4) => TransformErr = "InvalidDecomposition"

\* the same for the level counts whose power of two fits unsigned int
C1_InRange ==
    nlevels < UIntBits => C1_LevelCountPreconditions

C1_Witness_Overflow ==
    /\ Returned
    /\ nlevels = UIntBits
    /\ IsDwt
    /\ HandledLen = 4

\* C2: a successful transform returns exactly J sequences; DWT level j has
\* length N/2^j (the truncated quotient), every MODWT level has length N, N the
\* length after boundary handling (twice the input length for reflection).
C2_OutputShape ==
    Returned =>
        /\ Len(y) = nlevels
        /\ \A jj \in 1..Len(y) :
              Len(y[jj]) = IF IsDwt THEN DivPow2(HandledLen, jj) ELSE HandledLen

C2_Witness ==
    /\ Returned
    /\ IsDwt
    /\ boundary = "reflection"
    /\ nlevels = 2
    /\ Len(y[1]) = 4
    /\ Len(y[2]) = 2

C2_Witness_Modwt ==
    /\ Returned
    /\ ~IsDwt
    /\ boundary = "reflection"
    /\ nlevels = 3
    /\ Len(y[3]) = 10

(***************************************************************************)
(* The pyramid as the specification states it, with an explicit modulus.   *)
(* In a step of the pyramid loop x is x_{j-1} and x' is x_j.               *)
(***************************************************************************)
\* sum over n = 0..L-1 of (f[n]/sqrt 2) * v[(t - n*2^(jj-1)) mod N]
ModwtConv(f, v, jj) ==
    [t \in 1..Len(v) |->
        SumSeq([n \in 1..Len(f) |->
            RMul(RDivSqrt2(f[n]),
                 v[(((t - 1) - (n - 1) * Pow2(jj - 1)) % Len(v)) + 1])])]

\* Haar: (v[t] -/+ v[(t - 2^(jj-1)) mod N]) / 2
HaarModwt(v, jj, sign) ==
    [t \in 1..Len(v) |->
        Half(RAdd(v[t], RMul(RInt(sign), v[(((t - 1) - Pow2(jj - 1)) % Len(v)) + 1])))]

LevelDone == pc = "loop" /\ pc' = "loop" /\ j' = j + 1

\* C3: modwt_arma starts the pyramid on the boundary-handled signal x_0; level j
\* stores the wavelet sequence sum_n (h[n]/sqrt 2) x_{j-1}[(t - n 2^(j-1)) mod N]
\* as result level j, carries the scaling sequence (the same sum with g) to level
\* j+1 and leaves the stored levels alone; for Haar the two are
\* (x[t] - x[t - 2^(j-1)])/2 and (x[t] + x[t - 2^(j-1)])/2.
C3_ModwtPyramid ==
    /\ []((~IsDwt /\ pc = "loop" /\ j = 1) => (x = Handled /\ Len(x) = HandledLen))
    /\ [][(~IsDwt /\ LevelDone) =>
            /\ Len(x) = HandledLen
            /\ y'[j] = ModwtConv(haar_filter.h, x, j)
            /\ x' = ModwtConv(haar_filter.g, x, j)
            /\ y'[j] = HaarModwt(x, j, -1)
            /\ x' = HaarModwt(x, j, 1)
            /\ \A jj \in 1..(j - 1) : y'[jj] = y[jj]]_vars
    /\ [][(~IsDwt /\ pc = "loop" /\ pc' = "done") => y' = y]_vars

C3_Witness ==
    /\ ~IsDwt
    /\ Returned
    /\ nlevels = 3
    /\ boundary = "reflection"
    /\ Len(signal) = 5
    /\ y[3] # y[2]
    /\ \E t \in 1..10 : y[3][t] # RInt(0)

\* sum over n = 0..L-1 of f[n] * v[(2t + 1 - n) mod M], t in [0, M/2)
DwtConv(f, v) ==
    [t \in 1..(Len(v) \div 2) |->
        SumSeq([n \in 1..Len(f) |->
            RMul(f[n], v[((2 * (t - 1) + 1 - (n - 1)) % Len(v)) + 1])])]

\* C4: dwt_arma starts the pyramid on the boundary-handled signal x_0; level j,
\* with M = N/2^(j-1) the length of x_{j-1}, stores the wavelet sequence
\* sum_n h[n] x_{j-1}[(2t+1-n) mod M], t in [0, M/2), as result level j, carries
\* the scaling sequence (the same sum with g, length M/2) to level j+1 and leaves
\* the stored levels alone.
C4_DwtPyramid ==
    /\ []((IsDwt /\ pc = "loop" /\ j = 1) => x = Handled)
    /\ [][(IsDwt /\ LevelDone) =>
            /\ Len(x) = DivPow2(HandledLen, j - 1)
            /\ y'[j] = DwtConv(haar_filter.h, x)
            /\ x' = DwtConv(haar_filter.g, x)
            /\ Len(x') = DivPow2(HandledLen, j - 1) \div 2
            /\ \A jj \in 1..(j - 1) : y'[jj] = y[jj]]_vars
    /\ [][(IsDwt /\ pc = "loop" /\ pc' = "done") => y' = y]_vars

C4_Witness ==
    /\ IsDwt
    /\ Returned
    /\ nlevels = 2
    /\ Len(signal) = 4
    /\ boundary = "reflection"
    /\ y[2] # <<RInt(0), RInt(0)>>
    /\ y[1] # <<RInt(0), RInt(0), RInt(0), RInt(0)>>

\* C5: periodic hands the signal on as given; reflection hands on the signal
\* followed by its reversed copy (length 2N, element N+i = element N-1-i) and the
\* level-count check sees the doubled length; any other boundary fails with the
\* unsupported-boundary error before a coefficient is computed.
C5_BoundaryHandling ==
    /\ boundary = "periodic" =>
          /\ pc = "levels" => x = signal
          /\ pc \in {"filter", "loop"} => N = Len(signal)
    /\ boundary = "reflection" =>
          /\ err # "ReflectOutOfBounds"
          /\ pc = "levels" =>
                /\ Len(x) = 2 * Len(signal)
                /\ \A i \in 0..(Len(signal) - 1) :
                      /\ x[i + 1] = signal[i + 1]
                      /\ x[Len(signal) + i + 1] = signal[Len(signal) - 1 - i + 1]
          /\ pc \in {"filter", "loop"} => N = 2 * Len(signal)
    /\ (boundary \notin {"periodic", "reflection"} /\ pc # "boundary") =>
          /\ pc = "error"
          /\ err = "UnsupportedBoundary"
          /\ y = <<>>
          /\ j = 0

\* the same for the signals that have at least one sample
C5_NonEmpty ==
    Len(signal) > 0 => C5_BoundaryHandling

\* the caller's vector is never written (x is the by-value copy)
C5_SignalUnmodified == [][signal' = signal]_vars

(***************************************************************************)
(* Properties of brick_wall.                                               *)
(***************************************************************************)
BrickWallReturned == pc = "trimmed"

BrickWallOver == pc = "trimmed" \/ (pc = "error" /\ err = "TrimOutOfBounds")

\* the trim count of 0-based level jj as the specification states it
\* (ceil(a - a/b) = a - floor(a/b) for the integer a = m - 2)
SpecTrimCount(m, jj, meth) ==
    IF meth = "modwt" THEN (Pow2(jj + 1) - 1) * (m - 1)
    ELSE (m - 2) - ((m - 2) \div Pow2(jj + 1))

DropFirst(v, c) == [i \in 1..(Len(v) - c) |-> v[i + c]]

\* level jj (0-based) is one the count leaves something of
Trimmable(jj) ==
    /\ Len(y[jj + 1]) > 0
    /\ SpecTrimCount(wave_filter.L, jj, method) < Len(y[jj + 1])

LevelTrimmed(jj) ==
    /\ jj + 1 <= Len(bw)
    /\ bw[jj + 1] = DropFirst(y[jj + 1], SpecTrimCount(wave_filter.L, jj, method))
    /\ (wave_filter.L = 2 /\ method = "modwt") =>
          Len(bw[jj + 1]) = Len(y[jj + 1]) - (Pow2(jj + 1) - 1)
    /\ (wave_filter.L = 2 /\ method = "dwt") => bw[jj + 1] = y[jj + 1]

\* C6: a brick_wall call keeps the number of levels and hands back, for every
\* level whose count c is smaller than its length, that level without its first
\* c elements, c = (2^(j+1) - 1)(m - 1) for "modwt" and ceil((m-2)(1 - 2^-(j+1)))
\* for "dwt"; with Haar that is 2^(j+1) - 1 elements (MODWT) and none (DWT).
C6_TrimCounts ==
    BrickWallOver =>
        \A jj \in 0..(Len(y) - 1) :
            Trimmable(jj) => (Len(bw) = Len(y) /\ LevelTrimmed(jj))

\* the same for the calls that return
C6_OnReturn ==
    BrickWallReturned =>
        /\ Len(bw) = Len(y)
        /\ \A jj \in 0..(Len(y) - 1) : Trimmable(jj) /\ LevelTrimmed(jj)

C6_Witness_Returned ==
    /\ BrickWallReturned
    /\ op = "modwt_arma"
    /\ Len(y) = 3
    /\ wave_filter.L = 2
    /\ method = "modwt"
    /\ Len(bw[1]) = 9
    /\ Len(bw[3]) = 3

\* C7: a level whose count is at least its length (an empty level included)
\* comes back empty, and the call raises no error.
C7_TrimClamp ==
    /\ err # "TrimOutOfBounds"
    /\ BrickWallReturned =>
          \A jj \in 0..(Len(y) - 1) : ~Trimmable(jj) => bw[jj + 1] = <<>>

(***************************************************************************)
(* Properties of wave_variance / ci_eta3 and of wavelet_variance_arma.     *)
(***************************************************************************)
Estimated == pc \in {"estimated", "returned"}

\* e = max(len / 2^(i+1), 1), i 0-based
IsEta3(e, len, i) ==
    IF i + 1 <= 30 /\ len >= Pow2(i + 1)
    THEN RMul(e, RInt(Pow2(i + 1))) = RInt(len)
    ELSE e = RInt(1)

Eta3Used(i) == vmod[i].low.den[3]

RECURSIVE SumSquares(_, _)
SumSquares(v, n) ==
    IF n = 0 THEN RInt(0) ELSE RAdd(SumSquares(v, n - 1), RMul(v[n], v[n]))

\* C9: for every level that has a coefficient, the variance column is the sum of
\* the squares of that level's coefficients divided by their number, and is not
\* negative; wavelet_variance_arma returns that column as "variance".
C9_LevelVariance ==
    /\ Estimated =>
          \A i \in 1..Len(wx) :
              Len(wx[i]) >= 1 =>
                  /\ RMul(vmod[i].variance, RInt(Len(wx[i])))
                        = SumSquares(wx[i], Len(wx[i]))
                  /\ RNonNeg(vmod[i].variance)
    /\ pc = "returned" =>
          /\ Len(result.variance) = Len(bw)
          /\ \A i \in 1..Len(bw) :
                RMul(result.variance[i], RInt(Len(bw[i])))
                    = SumSquares(bw[i], Len(bw[i]))

C9_Witness ==
    /\ pc = "returned"
    /\ Len(signal) = 5
    /\ Len(bw) = 2
    /\ Len(bw[2]) = 2
    /\ result.variance[2] # RInt(0)
    /\ result.variance[1] # result.variance[2]

\* 2^k <= n < 2^(k+1)
IsFloorLog2(k, n) == Pow2(k) <= n /\ n < Pow2(k + 1)

\* C10: on a signal of length N >= 2 wavelet_variance_arma runs modwt_arma with
\* exactly floor(log2 N) levels and the periodic boundary, and (with the Haar
\* filter) returns variance, low, high and scales of that length, scales being
\* 2, 4, ..., 2^levels.
C10_AnalyzeLevels ==
    (IsAnalyze /\ Len(signal) >= 2) =>
        /\ pc # "an_start" =>
              /\ IsFloorLog2(nlevels, Len(signal))
              /\ nb_level = nlevels
              /\ boundary = "periodic"
        /\ FilterSupported(filter_name) => pc # "error"
        /\ pc \in {"done", "trimmed", "estimated", "returned"} =>
              /\ Len(y) = nb_level
              /\ \A i \in 1..Len(y) : Len(y[i]) = Len(signal)
        /\ pc = "returned" =>
              /\ IsFloorLog2(Len(result.variance), Len(signal))
              /\ Len(result.low) = Len(result.variance)
              /\ Len(result.high) = Len(result.variance)
              /\ Len(result.scales) = Len(result.variance)
              /\ \A i \in 0..(Len(result.scales) - 1) :
                    result.scales[i + 1] = RInt(Pow2(i + 1))

C10_Witness ==
    /\ pc = "returned"
    /\ Len(signal) = 9
    /\ Len(result.scales) = 3
    /\ result.scales[3] = RInt(8)
    /\ Len(result.high) = 3

(***************************************************************************)
(* wavelet_variance_arma end to end.                                       *)
(***************************************************************************)
AnalyzeReturned == IsAnalyze /\ pc = "returned"

ScaleSet == {result.scales[i] : i \in 1..Len(result.scales)}

\* C11: wavelet_variance_arma on a signal of length 16 with the Haar filter
\* returns exactly 3 scales {2, 4, 8} and exactly 3 variance estimates.
C11_ThreeScales ==
    (AnalyzeReturned /\ Len(signal) = 16) =>
        /\ Len(result.scales) = 3
        /\ ScaleSet = {RInt(2), RInt(4), RInt(8)}
        /\ Len(result.variance) = 3

\* C11 as the code has it: floor(log2(16)) = 4, so the call with the Haar filter
\* returns exactly 4 scales {2, 4, 8, 16} and exactly 4 variance estimates with
\* their 4 lower and upper bounds.
C11_FourScales ==
    (IsAnalyze /\ Len(signal) = 16 /\ FilterSupported(filter_name)) =>
        /\ pc # "error"
        /\ pc = "returned" =>
              /\ Len(result.scales) = 4
              /\ ScaleSet = {RInt(2), RInt(4), RInt(8), RInt(16)}
              /\ Len(result.variance) = 4
              /\ Len(result.low) = 4
              /\ Len(result.high) = 4

C11_Witness ==
    /\ AnalyzeReturned
    /\ Len(signal) = 16
    /\ filter_name = "haar"
    /\ result.scales[4] = RInt(16)
    /\ Len(result.variance) = 4

\* variance, low, high and scales as functions of the decomposition alone: the
\* mean square of the trimmed level, its eta3 bounds and the scale 2^(i+1)
EstimatesOfSignal ==
    /\ Len(result.variance) = Len(y)
    /\ Len(result.low) = Len(y)
    /\ Len(result.high) = Len(y)
    /\ Len(result.scales) = Len(y)
    /\ \A i \in 1..Len(y) :
          LET trimmed == DropFirst(y[i], Pow2(i) - 1)
              v == result.variance[i]
              e == result.low[i].den[3]
          IN  /\ Len(trimmed) >= 1
              /\ RMul(v, RInt(Len(trimmed))) = SumSquares(trimmed, Len(trimmed))
              /\ IsEta3(e, Len(trimmed), i - 1)
              /\ result.low[i] = [num |-> RMul(e, v), den |-> <<"qchisq", "1-p", e>>]
              /\ result.high[i] = [num |-> RMul(e, v), den |-> <<"qchisq", "p", e>>]
              /\ result.scales[i] = RInt(Pow2(i))

\* C12: with compute_v = "no" wavelet_variance_arma returns NaN as the upper and
\* the lower Gaussian bound of every scale and the identity matrix of size
\* levels x levels as V; variance, low, high and scales are, in every mode, the
\* same functions of the decomposition, in which compute_v does not occur.
C12_ModeNo ==
    /\ (AnalyzeReturned /\ compute_v = "no") =>
          /\ Len(result.up_gauss) = nb_level
          /\ Len(result.dw_gauss) = nb_level
          /\ \A i \in 1..nb_level :
                IsGaussNaN(result.up_gauss[i]) /\ IsGaussNaN(result.dw_gauss[i])
          /\ Len(result.V) = nb_level
          /\ \A i \in 1..nb_level :
                /\ Len(result.V[i]) = nb_level
                /\ \A k \in 1..nb_level :
                      result.V[i][k] = IF i = k THEN RInt(1) ELSE RInt(0)
    /\ AnalyzeReturned => EstimatesOfSignal
    /\ (IsAnalyze /\ compute_v = "no" /\ FilterSupported(filter_name)
            /\ Len(signal) >= 1) => pc # "error"

C12_Witness ==
    /\ AnalyzeReturned
    /\ compute_v = "no"
    /\ Len(signal) = 8
    /\ IsGaussNaN(result.up_gauss[3])
    /\ IsGaussNaN(result.dw_gauss[1])
    /\ result.V[2][2] = RInt(1)
    /\ result.V[1][2] = RInt(0)
    /\ result.variance[1] # RInt(0)

(***************************************************************************)
(* Properties of qmf, haar_filter and select_filter.                       *)
(***************************************************************************)
QmfReturned == op = "qmf" /\ pc = "qmf_done"

\* element i (0-based) of the reversed input
ReversedAt(i) == signal[Len(signal) - i]

\* the returned vector is the reversed input, negated exactly at the 0-based
\* indices of parity negatedParity
QmfNegatesParity(negatedParity) ==
    /\ Len(rev_g) = Len(signal)
    /\ \A i \in 0..(Len(signal) - 1) :
          rev_g[i + 1] = IF i % 2 = negatedParity
                         THEN RNeg(ReversedAt(i)) ELSE ReversedAt(i)

\* C13: qmf(g, inverse) returns the reversed input in which the forward form
\* (inverse = false) negates the elements at odd indices and the inverse form
\* (inverse = true) negates the elements at even indices.
C13_QmfSigns ==
    QmfReturned => QmfNegatesParity(IF inverse THEN 0 ELSE 1)

\* C13 as the code has it: the forward form (inverse = false) negates the elements
\* at even indices, the inverse form (inverse = true, the default) those at odd
\* indices; every other element is the reversed input's.  The Haar wavelet filter,
\* the inverse form of (1/sqrt 2, 1/sqrt 2), is (1/sqrt 2, -1/sqrt 2).
C13_QmfSignsOfCode ==
    /\ QmfReturned => QmfNegatesParity(IF inverse THEN 1 ELSE 0)
    /\ pc = "loop" /\ IsDwt =>
          filt.h = <<RDivSqrt2(RInt(1)), RNeg(RDivSqrt2(RInt(1)))>>

C13_Witness ==
    /\ QmfReturned
    /\ inverse
    /\ Len(signal) = 3
    /\ signal[1] = RInt(2)
    /\ signal[2] = RInt(-1)
    /\ rev_g[2] = RInt(1)
    /\ rev_g[3] = RInt(2)

C13_Witness_Forward ==
    /\ QmfReturned
    /\ ~inverse
    /\ Len(signal) = 2
    /\ signal[1] = RInt(2)
    /\ rev_g[2] = RInt(2)
    /\ rev_g[1] = RNeg(signal[2])

UsesFilter == op \in Transforms \cup {"wavelet_variance_arma"}

\* nothing has been produced: no level, no trimmed level, no estimate, no result
NothingReturned ==
    /\ pc \in {"an_start", "boundary", "levels", "filter", "error"}
    /\ y = <<>>
    /\ bw = <<>>
    /\ vmod = <<>>
    /\ result = <<>>

\* errors that another argument causes before the filter is selected
OtherArgumentErrors ==
    {"UnsupportedBoundary", "ReflectOutOfBounds", "InvalidDecomposition"}

\* h[i] = +/- g[L-1-i], the sign alternating with the parity of the 0-based i
IsMirrorOf(h, g, L) ==
    /\ Len(h) = L
    /\ Len(g) = L
    /\ \A i \in 0..(L - 1) :
          h[i + 1] = IF i % 2 = 1 THEN RNeg(g[L - i]) ELSE g[L - i]

\* C14: with a filter name other than "haar", dwt_arma, modwt_arma and
\* wavelet_variance_arma produce no coefficients and no estimates; once the other
\* arguments have passed their checks the selection of the filter ends the call
\* with the unsupported-filter error, and no other error occurs but those of
\* another invalid argument.  For "haar" the filter has L = 2 and
\* h[i] = +/- g[L-1-i], the sign alternating with the parity of i.
C14_UnsupportedFilter ==
    /\ [](/\ (UsesFilter /\ ~FilterSupported(filter_name)) =>
                /\ NothingReturned
                /\ pc = "error" =>
                      err \in OtherArgumentErrors \cup {"UnsupportedFilter"}
          /\ (UsesFilter /\ pc \in {"loop", "done"}) =>
                /\ filter_name = "haar"
                /\ filt.L = 2
                /\ IsMirrorOf(filt.h, filt.g, filt.L)
          /\ IsMirrorOf(haar_filter.h, haar_filter.g, 2))
    /\ [][(pc = "filter" /\ ~FilterSupported(filter_name)) =>
              (pc' = "error" /\ err' = "UnsupportedFilter")]_vars

C14_Witness ==
    /\ op = "wavelet_variance_arma"
    /\ filter_name = "d4"
    /\ Len(signal) = 8
    /\ pc = "error"
    /\ err = "UnsupportedFilter"
    /\ result = <<>>

C14_Witness_Transform ==
    /\ op \in Transforms
    /\ filter_name = "d4"
    /\ pc = "error"
    /\ err = "UnsupportedFilter"
    /\ y = <<>>

C14_Witness_Haar ==
    /\ op = "modwt_arma"
    /\ pc = "done"
    /\ filt.h[2] = RNeg(filt.g[1])
    /\ filt.h[1] # RInt(0)

(***************************************************************************)
(* The list wavelet_variance_arma returns.                                 *)
(***************************************************************************)
\* C15: the list wavelet_variance_arma returns has a field "wavelet" holding the
\* name of the filter used, next to variance, low, high, scales, V and the two
\* Gaussian bound vectors.
C15_WaveletField ==
    AnalyzeReturned =>
        /\ {"variance", "low", "high", "scales", "V", "up_gauss", "dw_gauss"}
              \subseteq DOMAIN result
        /\ "wavelet" \in DOMAIN result
        /\ result["wavelet"] = filter_name

\* the list has the seven fields of List::create and no other
C15_SevenFields ==
    AnalyzeReturned =>
        DOMAIN result =
            {"variance", "low", "high", "scales", "V", "up_gauss", "dw_gauss"}

(***************************************************************************)
(* Ordering of the eta3 interval.                                          *)
(***************************************************************************)
RLeq(a, b) == RNonNeg(RAdd(b, RNeg(a)))

RPositive(a) == RNonNeg(a) /\ a # RInt(0)

\* num/q <= v for every q the enclosure allows (v > 0, num >= 0)
BoundAtMost(bound, v) ==
    RLeq(bound.num, RMul(v, qchisq(bound.den[2], bound.den[3]).lo))

\* num/q >= v for every q the enclosure allows
BoundAtLeast(bound, v) ==
    RLeq(RMul(v, qchisq(bound.den[2], bound.den[3]).hi), bound.num)

\* C16: for every level with a positive variance (eta3 is at least 1 at every
\* level) the bounds ci_eta3 returns at p = 0.025, eta3*variance over the 0.975
\* and over the 0.025 quantile of the chi-squared distribution with eta3 degrees
\* of freedom, satisfy low <= variance <= high.
C16_Eta3Ordering ==
    Estimated =>
        \A i \in 1..Len(vmod) :
            /\ RLeq(RInt(1), Eta3Used(i))
            /\ RPositive(vmod[i].variance) =>
                  /\ vmod[i].low.num = RMul(Eta3Used(i), vmod[i].variance)
                  /\ vmod[i].high.num = vmod[i].low.num
                  /\ BoundAtMost(vmod[i].low, vmod[i].variance)
                  /\ BoundAtLeast(vmod[i].high, vmod[i].variance)

C16_Witness ==
    /\ AnalyzeReturned
    /\ Len(signal) = 8
    /\ RPositive(vmod[1].variance)
    /\ Eta3Used(1) = <<7, 0, 2>>
    /\ RPositive(vmod[2].variance)
    /\ Eta3Used(2) = <<5, 0, 4>>

(***************************************************************************)
(* The covariance modes of wavelet_variance_arma.                          *)
(***************************************************************************)
IsIdentity(V, n) ==
    /\ Len(V) = n
    /\ \A i \in 1..n :
          /\ Len(V[i]) = n
          /\ \A k \in 1..n : V[i][k] = IF i = k THEN RInt(1) ELSE RInt(0)

\* C17: with compute_v = "full" the matrix V stays the identity placeholder and the
\* call returns no finite Gaussian bound computed from it: no returned bound has
\* a number as its centre.
C17_FullNotPresented ==
    (AnalyzeReturned /\ compute_v = "full") =>
        /\ IsIdentity(result.V, nb_level)
        /\ \A i \in 1..nb_level :
              /\ IsGaussNaN(result.up_gauss[i])
              /\ IsGaussNaN(result.dw_gauss[i])

\* what the code does with compute_v = "full": V is the identity and every
\* Gaussian bound is variance +/- qnorm(1-p)*sqrt(1), with a finite variance
C17_FullFromPlaceholder ==
    (AnalyzeReturned /\ compute_v = "full") =>
        /\ IsIdentity(result.V, nb_level)
        /\ \A i \in 1..nb_level :
              /\ result.up_gauss[i] =
                    [centre |-> result.variance[i], sign |-> 1,
                     z |-> <<"qnorm", "1-p">>, var |-> RInt(1)]
              /\ result.dw_gauss[i] =
                    [centre |-> result.variance[i], sign |-> -1,
                     z |-> <<"qnorm", "1-p">>, var |-> RInt(1)]
              /\ ~IsNaN(result.variance[i])

\* sum over t = 0..m-1 of w[t]*w[t+k] (0-based t)
RECURSIVE LagSum(_, _, _)
LagSum(w, k, m) ==
    IF m = 0 THEN RInt(0)
    ELSE RAdd(LagSum(w, k, m - 1), RMul(w[m], w[m + k]))

\* acf[k] = (1/N) * sum_{t=0}^{N-1-k} w[t]*w[t+k]
Acf(w, k) == RDivInt(LagSum(w, k, Len(w) - k), Len(w))

\* sum over k = 0..m-1 of acf[k]^2
RECURSIVE SumAcfSquares(_, _)
SumAcfSquares(w, m) ==
    IF m = 0 THEN RInt(0)
    ELSE RAdd(SumAcfSquares(w, m - 1), RMul(Acf(w, m - 1), Acf(w, m - 1)))

\* A = sum_k acf[k]^2 - acf[0]^2/2
AOfLevel(w) ==
    RAdd(SumAcfSquares(w, Len(w)),
         RNeg(RDivInt(RMul(Acf(w, 0), Acf(w, 0)), 2)))

\* C18: with compute_v = "diag" the matrix V is diagonal with V[i][i] = 2*A_i/N,
\* A_i = sum_k acf_i[k]^2 - acf_i[0]^2/2 over the lagged sums acf_i of the untrimmed
\* level i and N the length of level 0; acf_i[0] is sum(w^2)/N, A_i is not
\* negative, and the Gaussian bounds are variance_i +/- z_(1-p)*sqrt(V[i][i])
\* about the variance estimate of the eta3 interval.
C18_DiagCovariance ==
    (AnalyzeReturned /\ compute_v = "diag") =>
        /\ Len(result.V) = Len(y)
        /\ Len(result.up_gauss) = Len(y)
        /\ Len(result.dw_gauss) = Len(y)
        /\ \A i \in 1..Len(y) :
              /\ Len(result.V[i]) = Len(y)
              /\ \A k \in 1..Len(y) : i # k => result.V[i][k] = RInt(0)
              /\ RMul(result.V[i][i], RInt(Len(y[1])))
                    = RMul(RInt(2), AOfLevel(y[i]))
              /\ RMul(Acf(y[i], 0), RInt(Len(y[i])))
                    = SumSquares(y[i], Len(y[i]))
              /\ RNonNeg(AOfLevel(y[i]))
              /\ RNonNeg(result.V[i][i])
              /\ result.up_gauss[i] =
                    [centre |-> vmod[i].variance, sign |-> 1,
                     z |-> <<"qnorm", "1-p">>, var |-> result.V[i][i]]
              /\ result.dw_gauss[i] =
                    [centre |-> vmod[i].variance, sign |-> -1,
                     z |-> <<"qnorm", "1-p">>, var |-> result.V[i][i]]
              /\ result.variance[i] = vmod[i].variance

C18_Witness ==
    /\ AnalyzeReturned
    /\ compute_v = "diag"
    /\ Len(signal) = 8
    /\ Len(result.V) = 3
    /\ result.V[1][1] # RInt(0)
    /\ result.V[2][2] # result.V[1][1]
    /\ result.V[1][2] = RInt(0)
    /\ result.up_gauss[1].var = result.V[1][1]

(***************************************************************************)
(* The trimmed levels of wavelet_variance_arma.                            *)
(***************************************************************************)
\* C19: in wavelet_variance_arma with the Haar filter and a signal of length
\* N >= 2, the trimmed level j (0-based, j < floor(log2 N)) has exactly
\* N - 2^(j+1) + 1 coefficients, at least one: the count to remove is below the
\* level's length (the clamp is not used), brick_wall does not fail, no level
\* handed to wave_variance is empty and no variance is 0/0.
C19_TrimmedLengths ==
    (IsAnalyze /\ filter_name = "haar" /\ Len(signal) >= 2) =>
        /\ pc # "error"
        /\ pc \in {"trimmed", "estimated", "returned"} =>
              /\ IsFloorLog2(Len(bw), Len(signal))
              /\ Len(bw) = Len(y)
              /\ \A jj \in 0..(Len(bw) - 1) :
                    /\ Len(bw[jj + 1]) = Len(signal) - Pow2(jj + 1) + 1
                    /\ Len(bw[jj + 1]) >= 1
                    /\ SpecTrimCount(2, jj, "modwt") < Len(y[jj + 1])
        /\ Estimated =>
              /\ wx = bw
              /\ \A i \in 1..Len(vmod) :
                    Len(wx[i]) >= 1 /\ ~IsNaN(vmod[i].variance)

C19_Witness ==
    /\ AnalyzeReturned
    /\ Len(signal) = 16
    /\ Len(bw) = 4
    /\ Len(bw[1]) = 15
    /\ Len(bw[4]) = 1
    /\ ~IsNaN(result.variance[4])

(***************************************************************************)
(* Index safety of the pyramid loops.                                      *)
(***************************************************************************)
\* a level is about to be computed
AtLevel == op \in Transforms /\ pc = "loop" /\ j <= J

\* every index the level reads lies in the current-level signal
IndexInside ==
    \A t \in 0..(OutLen(j) - 1) : \A n \in 0..(filt.L - 1) :
        0 <= TapIndex(t, n, j) /\ TapIndex(t, n, j) < Len(x)

\* the reasons: in modwt_arma the signal has length N and 2^(j-1) < N, in
\* dwt_arma it has the even length M and u starts at 2t+1 <= M-1
IndexSafe ==
    /\ IndexInside
    /\ IF IsDwt
       THEN /\ Len(x) = LevelM(j)
            /\ LevelM(j) % 2 = 0
            /\ \A t \in 0..(OutLen(j) - 1) : 2 * t + 1 <= LevelM(j) - 1
       ELSE /\ Len(x) = N
            /\ Pow2(j - 1) < N

\* C20: at every level j <= J of a call that passed the level-count checks, every
\* index read lies inside the current-level signal (k in [0, N) in modwt_arma,
\* u in [0, M) in dwt_arma), and no element access is rejected.
C20_IndexSafety ==
    /\ err # "IndexOutOfBounds"
    /\ AtLevel => IndexInside

\* C20 for level counts whose power of two is within unsigned int
C20_InRange ==
    nlevels < UIntBits =>
        /\ err # "IndexOutOfBounds"
        /\ (pc = "loop" /\ j <= J) => IndexSafe

C20_Witness_InRange ==
    /\ op = "modwt_arma"
    /\ pc = "loop"
    /\ N = 5
    /\ J = 2
    /\ j = 2
    /\ TapIndex(0, 1, j) = 3

====
